---- MODULE Spec2Model ----
(***************************************************************************)
(* A model of jax2onnx's lowering engine: to_onnx (conversion_api.py),     *)
(* function_handler and _propagate_nested_functions (converter/utils.py)   *)
(* and PowPlugin.to_onnx (plugins/jax/lax/pow.py).                         *)
(*                                                                         *)
(* The conversion is one synchronous depth-first recursion.  `stack` holds *)
(* one frame per graph level (one OnnxBuilder and one converter each); a   *)
(* nested call pushes a frame, and the rest of function_handler runs when  *)
(* the sub-trace has returned.  Names are Python strings, modelled as      *)
(* sequences of character codes so that sorted() is a real lexicographic   *)
(* comparison.                                                             *)
(***************************************************************************)
EXTENDS Integers, Sequences, FiniteSets, TLC

VARIABLES
    top,           \* the source-IR program of the callable given to to_onnx
    stack,         \* frames of the live trace_jaxpr calls, outermost first
    initializers,  \* the one initializer list every builder shares
    counters,      \* UniqueNameGenerator: base name -> next suffix
    exc,           \* the exception in flight, or "none"
    outcome,       \* "running", "returned" (to_onnx returned) or "raised"
    model,         \* what to_onnx handed to improve_onnx_model, or NoModel
    last           \* the locals of the function_handler call that ended last

vars == <<top, stack, initializers, counters, exc, outcome, model, last>>

\* ------------------------------------------------------------------ bounds

\* the longest top-level equation sequence
MaxEqns == 2

\* ------------------------------------------------------------------ strings

\* "_" and "."
Underscore == <<95>>
Dot == 46

\* the base names the converter and the plugins ask the name generator for
StrVar == <<118, 97, 114>>
StrConst == <<99, 111, 110, 115, 116>>
StrPow == <<112, 111, 119>>

\* the primitive names under which the two nested callables are registered
NameF == <<109, 46, 70>>
NameG == <<109, 46, 71>>
NameH == <<109, 46, 72>>

\* str(n) of a natural number
RECURSIVE Decimal(_)
Decimal(n) ==
    IF n < 10 THEN <<48 + n>> ELSE Decimal(n \div 10) \o <<48 + (n % 10)>>

\* a < b for Python strings: code point by code point, a proper prefix first
RECURSIVE LexLess(_, _)
LexLess(a, b) ==
    IF a = <<>> THEN b # <<>>
    ELSE IF b = <<>> THEN FALSE
    ELSE IF Head(a) < Head(b) THEN TRUE
    ELSE IF Head(a) > Head(b) THEN FALSE
    ELSE LexLess(Tail(a), Tail(b))

\* sorted(S) of a set of strings
RECURSIVE Sorted(_)
Sorted(S) ==
    IF S = {} THEN <<>>
    ELSE LET m == CHOOSE x \in S : \A y \in S \ {x} : LexLess(x, y)
         IN  <<m>> \o Sorted(S \ {m})

\* name.split(".")[-1]
RECURSIVE LastDotted(_)
LastDotted(s) ==
    IF \E i \in 1..Len(s) : s[i] = Dot
    THEN LastDotted(Tail(s))
    ELSE s

Range(s) == {s[i] : i \in 1..Len(s)}

EmptyFn == [x \in {} |-> x]

\* d[k] = v
Put(d, k, v) == (k :> v) @@ d

\* ------------------------------------------------------------------ name generator

\* UniqueNameGenerator.get(base): base_<count>, one count per base
GenName(cnt, base) ==
    base \o Underscore \o Decimal(IF base \in DOMAIN cnt THEN cnt[base] ELSE 0)

GenNext(cnt, base) ==
    Put(cnt, base, (IF base \in DOMAIN cnt THEN cnt[base] ELSE 0) + 1)

\* OnnxBuilder.get_unique_instance_name(base)
get_unique_instance_name(cnt, base) == GenName(cnt, base)

\* ------------------------------------------------------------------ source IR

\* A Variable: the program that owns it, how it is produced (a program input, a
\* closed-over constant, output j of equation i) and whether it carries an
\* abstract value (hasattr(var, "aval")).
InVar(p, i) == [p |-> p, k |-> "in", i |-> i, j |-> 0, aval |-> TRUE]
ConstVar(p, i) == [p |-> p, k |-> "const", i |-> i, j |-> 0, aval |-> TRUE]
OutVar(p, i, j, a) == [p |-> p, k |-> "out", i |-> i, j |-> j, aval |-> a]
NoVar == [p |-> "none", k |-> "none", i |-> 0, j |-> 0, aval |-> FALSE]

\* An input operand of an equation: a Var, a Literal, or something else
V(v) == [t |-> "Var", v |-> v]
Lit == [t |-> "Literal", v |-> NoVar]
Other == [t |-> "Other", v |-> NoVar]

Eqn(op, name, fn, ins, outs) ==
    [op |-> op, name |-> name, fn |-> fn, invars |-> ins, outvars |-> outs]

\* The equations a top-level program is drawn from; k is the equation's position
\* and prev the Variable the equation before it produced first.
TopEqn(t, k, prev) ==
    CASE t = 1 -> Eqn("pow", StrPow, "none",
                      <<V(InVar("top", 1)), V(InVar("top", 2))>>,
                      <<OutVar("top", k, 1, TRUE)>>)
      [] t = 2 -> Eqn("pow", StrPow, "none",
                      <<V(prev), Lit>>,
                      <<OutVar("top", k, 1, TRUE)>>)
      [] t = 3 -> Eqn("pow", StrPow, "none",
                      <<V(ConstVar("top", 1)), V(InVar("top", 1))>>,
                      <<OutVar("top", k, 1, TRUE)>>)
      [] t = 4 -> Eqn("call", NameF, "F",
                      <<V(InVar("top", 1)), V(InVar("top", 2))>>,
                      <<OutVar("top", k, 1, TRUE), OutVar("top", k, 2, TRUE)>>)
      [] t = 5 -> Eqn("call", NameF, "F",
                      <<V(prev), Lit>>,
                      <<OutVar("top", k, 1, TRUE), OutVar("top", k, 2, TRUE)>>)
      [] t = 6 -> Eqn("call", NameG, "G",
                      <<V(InVar("top", 1))>>,
                      <<OutVar("top", k, 1, TRUE)>>)
      [] t = 7 -> Eqn("call", NameG, "G",
                      <<V(InVar("top", 2))>>,
                      <<OutVar("top", k, 1, FALSE)>>)
      [] t = 8 -> Eqn("call", NameH, "none",
                      <<V(InVar("top", 1))>>,
                      <<OutVar("top", k, 1, TRUE)>>)
      [] t = 9 -> Eqn("call", NameG, "G",
                      <<Other>>,
                      <<OutVar("top", k, 1, TRUE)>>)
      [] OTHER -> Eqn("unknown", <<>>, "none",
                      <<V(InVar("top", 1))>>,
                      <<OutVar("top", k, 1, TRUE)>>)

Templates == 1..10

\* the first output of the equation before position k (the first input at k = 1)
Prev(ts, k) ==
    IF k = 1 THEN InVar("top", 1) ELSE TopEqn(ts[k - 1], k - 1, NoVar).outvars[1]

TopProgram(ts) ==
    [nin |-> 2, nconsts |-> 1,
     eqns |-> [k \in 1..Len(ts) |-> TopEqn(ts[k], k, Prev(ts, k))],
     outvars |-> TopEqn(ts[Len(ts)], Len(ts), NoVar).outvars]

TopPrograms ==
    {TopProgram(ts) : ts \in UNION {[1..n -> Templates] : n \in 1..MaxEqns}}

\* What tracing a nested callable yields.  F closes over one constant, which its
\* second equation reads after the first has made a constant of a Literal, and
\* calls G; G closes over a constant no equation reads.
Callee(p) ==
    IF p = "F"
    THEN [nin |-> 2, nconsts |-> 1,
          eqns |-> <<Eqn("pow", StrPow, "none", <<V(InVar("F", 1)), Lit>>,
                         <<OutVar("F", 1, 1, TRUE)>>),
                     Eqn("pow", StrPow, "none",
                         <<V(OutVar("F", 1, 1, TRUE)), V(ConstVar("F", 1))>>,
                         <<OutVar("F", 2, 1, TRUE)>>),
                     Eqn("call", NameG, "G", <<V(InVar("F", 2))>>,
                         <<OutVar("F", 3, 1, TRUE)>>)>>,
          outvars |-> <<OutVar("F", 2, 1, TRUE), OutVar("F", 3, 1, TRUE)>>]
    ELSE IF p = "G"
    THEN [nin |-> 1, nconsts |-> 1,
          eqns |-> <<Eqn("pow", StrPow, "none", <<V(InVar("G", 1)), Lit>>,
                         <<OutVar("G", 1, 1, TRUE)>>)>>,
          outvars |-> <<OutVar("G", 1, 1, TRUE)>>]
    ELSE [nin |-> 0, nconsts |-> 0, eqns |-> <<>>, outvars |-> <<>>]

Program(p) == IF p = "top" THEN top ELSE Callee(p)

\* ------------------------------------------------------------------ builder and converter

\* the locals function_handler holds while its sub-trace runs
NoCall ==
    [active |-> FALSE, unique_node_name |-> <<>>, unique_func_name |-> <<>>,
     input_names |-> <<>>, nargs |-> 0]

\* OnnxBuilder(...) with converter.__class__(builder) on it, tracing program p
NewFrame(p) ==
    [prog |-> p, pc |-> 0, done |-> FALSE, var_to_name |-> EmptyFn,
     nodes |-> <<>>, inputs |-> <<>>, outputs |-> <<>>, meta |-> EmptyFn,
     value_info |-> {}, functions |-> EmptyFn, call |-> NoCall]

\* OnnxBuilder.register_value_info_metadata(name, shape, dtype, origin): a record
\* of provenance original or repaired is never downgraded
register_value_info_metadata(meta, name, origin) ==
    IF /\ name \in DOMAIN meta
       /\ meta[name] \in {"original", "repaired"}
       /\ origin \in {"recovered", "subgraph"}
    THEN meta
    ELSE Put(meta, name, origin)

\* A converter context threaded through name lookups: the frame's variable
\* map, the name generator and the shared initializer list.
Ctx(v2n, cnt, inits) == [v2n |-> v2n, cnt |-> cnt, inits |-> inits, name |-> <<>>]

\* converter.get_var_name(var)
get_var_name(c, var) ==
    IF var \in DOMAIN c.v2n
    THEN [c EXCEPT !.name = c.v2n[var]]
    ELSE [c EXCEPT !.name = GenName(c.cnt, StrVar),
                   !.v2n = Put(c.v2n, var, GenName(c.cnt, StrVar)),
                   !.cnt = GenNext(c.cnt, StrVar)]

\* converter.get_constant_name(val): a fresh initializer
get_constant_name(c) ==
    [c EXCEPT !.name = GenName(c.cnt, StrConst),
              !.inits = Append(c.inits, GenName(c.cnt, StrConst)),
              !.cnt = GenNext(c.cnt, StrConst)]

\* converter.get_name(var): a Var's bound name, a Literal's inline constant
get_name(c, operand) ==
    IF operand.t = "Var" THEN get_var_name(c, operand.v) ELSE get_constant_name(c)

\* a frame with its converter's context written back
WithCtx(f, c) == [f EXCEPT !.var_to_name = c.v2n]

\* In the folds below b pairs the frame being built (f) with its converter
\* context (c).  trace_jaxpr binds one graph input per traced argument ...
RECURSIVE BindInvars(_, _, _)
BindInvars(b, i, n) ==
    IF i > n THEN b
    ELSE LET c == get_var_name(b.c, InVar(b.f.prog, i))
         IN  BindInvars(
                 [f |-> [b.f EXCEPT
                            !.inputs = Append(@, c.name),
                            !.meta = register_value_info_metadata(@, c.name, "original")],
                  c |-> c], i + 1, n)

\* ... and one initializer per closed-over constant
RECURSIVE BindConsts(_, _, _)
BindConsts(b, i, n) ==
    IF i > n THEN b
    ELSE LET c == get_constant_name(b.c)
         IN  BindConsts(
                 [f |-> b.f,
                  c |-> [c EXCEPT !.v2n = Put(@, ConstVar(b.f.prog, i), c.name)]],
                 i + 1, n)

\* [s.get_name(inp) for inp in operands]
RECURSIVE NamesOf(_, _, _)
NamesOf(c, operands, acc) ==
    IF operands = <<>> THEN [c |-> c, names |-> acc]
    ELSE LET c1 == get_name(c, Head(operands))
         IN  NamesOf(c1, Tail(operands), Append(acc, c1.name))

\* helper.make_node(op_type, inputs, outputs, name)
make_node(op_type, ins, outs, name) ==
    [op_type |-> op_type, inputs |-> ins, outputs |-> outs, name |-> name]

\* "Pow"
StrPowOp == <<80, 111, 119>>

\* a Pow node with its operands exchanged
PowNodeSwapped(input_names, output_name, node_name) ==
    make_node(StrPowOp, <<input_names[2], input_names[1]>>, <<output_name>>, node_name)

\* the node PowPlugin.to_onnx makes of the operand names and the output name
PowNode(input_names, output_name, node_name) ==
    make_node(StrPowOp, input_names, <<output_name>>, node_name)

\* PowPlugin.to_onnx(s, node_inputs, node_outputs, params)
PowPlugin_to_onnx(f, c, eqn) ==
    LET ins == NamesOf(c, eqn.invars, <<>>)
        out == get_var_name(ins.c, eqn.outvars[1])
        node == PowNode(ins.names, out.name, GenName(out.cnt, StrPow))
        c2 == [out EXCEPT !.cnt = GenNext(@, StrPow)]
    IN  [f |-> WithCtx([f EXCEPT !.nodes = Append(@, node)], c2), c |-> c2]

\* ------------------------------------------------------------------ the conversion

Depth == Len(stack)
Cur == stack[Depth]
CurProgram == Program(Cur.prog)
Running == outcome = "running" /\ exc = "none"
CurEqn == CurProgram.eqns[Cur.pc]
AtEqn == /\ Running
         /\ ~Cur.done
         /\ ~Cur.call.active
         /\ Cur.pc \in 1..Len(CurProgram.eqns)

NoModel == [nodes |-> <<>>, initializers |-> <<>>, functions |-> EmptyFn]
NoLast ==
    [unique |-> <<>>, sub_functions |-> EmptyFn, propagated |-> EmptyFn,
     sub_meta |-> EmptyFn, sub_var_to_name |-> EmptyFn]

\* to_onnx up to its call of converter.trace_jaxpr
Init ==
    /\ top \in TopPrograms
    /\ stack = <<NewFrame("top")>>
    /\ initializers = <<>>
    /\ counters = EmptyFn
    /\ exc = "none"
    /\ outcome = "running"
    /\ model = NoModel
    /\ last = NoLast

\* trace_jaxpr starts: the traced program's inputs and constants are bound
TraceBegin ==
    /\ Running
    /\ Cur.pc = 0
    /\ LET nin == IF Depth = 1 THEN top.nin ELSE stack[Depth - 1].call.nargs
           b0 == [f |-> Cur, c |-> Ctx(Cur.var_to_name, counters, initializers)]
           b1 == BindInvars(b0, 1, nin)
           b2 == BindConsts(b1, 1, CurProgram.nconsts)
       IN  /\ stack' = [stack EXCEPT ![Depth] = [WithCtx(b2.f, b2.c) EXCEPT !.pc = 1]]
           /\ counters' = b2.c.cnt
           /\ initializers' = b2.c.inits
    /\ UNCHANGED <<top, exc, outcome, model, last>>

\* the equation's primitive is pow: its plugin lowers it
LowerPow ==
    /\ AtEqn
    /\ CurEqn.op = "pow"
    /\ LET r == PowPlugin_to_onnx(Cur, Ctx(Cur.var_to_name, counters, initializers), CurEqn)
       IN  /\ stack' = [stack EXCEPT ![Depth] = [r.f EXCEPT !.pc = @ + 1]]
           /\ counters' = r.c.cnt
           /\ initializers' = r.c.inits
    /\ UNCHANGED <<top, exc, outcome, model, last>>

\* no plugin is registered for the equation's primitive
LowerUnknown ==
    /\ AtEqn
    /\ CurEqn.op = "unknown"
    /\ exc' = "UnknownOperation"
    /\ UNCHANGED <<top, stack, initializers, counters, outcome, model, last>>

\* ------------------------------------------------------------------ function_handler

\* a handler that never finds the callable missing
OrigFnNeverMissing(eqn) == FALSE

\* if orig_fn is None
OrigFnMissing(eqn) == eqn.fn = "none"

\* The loop over eqn.invars: a Var gives an input name, an example argument and
\* a metadata record on the parent; a Literal gives an example argument only;
\* anything else raises.
RECURSIVE PrepareInputs(_, _)
PrepareInputs(a, invars) ==
    IF invars = <<>> \/ a.err # "none" THEN a
    ELSE LET var == Head(invars)
         IN  IF var.t = "Var"
             THEN IF ~var.v.aval
                  THEN [a EXCEPT !.err = "AttributeError"]
                  ELSE LET c == get_name(a.c, var)
                       IN  PrepareInputs(
                               [a EXCEPT
                                   !.c = c,
                                   !.input_names = Append(@, c.name),
                                   !.nargs = @ + 1,
                                   !.meta = register_value_info_metadata(
                                                @, c.name, "original")],
                               Tail(invars))
             ELSE IF var.t = "Literal"
             THEN PrepareInputs([a EXCEPT !.nargs = @ + 1], Tail(invars))
             ELSE [a EXCEPT !.err = "TypeError"]

\* a function name shared by the call sites of one callable: the instance name
\* without its "_<count>"
FuncNameWithoutCounter(unique_node_name) ==
    SubSeq(unique_node_name, 1, Len(unique_node_name) - 2)

\* unique_func_name = unique_node_name
FuncName(unique_node_name) == unique_node_name

\* function_handler up to sub_converter.trace_jaxpr(orig_fn, example_args)
FunctionCallBegin ==
    /\ AtEqn
    /\ CurEqn.op = "call"
    /\ IF OrigFnMissing(CurEqn)
       THEN /\ exc' = "OrigFnNotRecorded"
            /\ UNCHANGED <<stack, counters>>
       ELSE LET base == LastDotted(CurEqn.name)
                unique == get_unique_instance_name(counters, base)
                a == PrepareInputs(
                         [c |-> Ctx(Cur.var_to_name, GenNext(counters, base), initializers),
                          meta |-> Cur.meta, input_names |-> <<>>, nargs |-> 0,
                          err |-> "none"],
                         CurEqn.invars)
                parent == [WithCtx(Cur, a.c) EXCEPT !.meta = a.meta]
                call == [active |-> TRUE, unique_node_name |-> unique,
                         unique_func_name |-> FuncName(unique),
                         input_names |-> a.input_names, nargs |-> a.nargs]
            IN  /\ counters' = a.c.cnt
                /\ exc' = a.err
                /\ stack' = IF a.err # "none"
                            THEN [stack EXCEPT ![Depth] = parent]
                            ELSE Append([stack EXCEPT ![Depth] = [parent EXCEPT !.call = call]],
                                        NewFrame(CurEqn.fn))
    /\ UNCHANGED <<top, initializers, outcome, model, last>>

\* trace_jaxpr ends: the traced program's outputs are declared on the builder;
\* has holds the positions of the outputs that get a metadata record
RECURSIVE DeclareOutputs(_, _, _, _)
DeclareOutputs(b, outvars, i, has) ==
    IF i > Len(outvars) THEN b
    ELSE LET c == get_var_name(b.c, outvars[i])
         IN  DeclareOutputs(
                 [f |-> [b.f EXCEPT
                            !.outputs = Append(@, c.name),
                            !.meta = IF i \in has
                                     THEN register_value_info_metadata(@, c.name, "original")
                                     ELSE @],
                  c |-> c],
                 outvars, i + 1, has)

TraceEnd ==
    /\ Running
    /\ ~Cur.done
    /\ Cur.pc = Len(CurProgram.eqns) + 1
    /\ \E has \in SUBSET (1..Len(CurProgram.outvars)) :
          LET b == DeclareOutputs(
                       [f |-> Cur, c |-> Ctx(Cur.var_to_name, counters, initializers)],
                       CurProgram.outvars, 1, has)
          IN  /\ stack' = [stack EXCEPT ![Depth] = [WithCtx(b.f, b.c) EXCEPT !.done = TRUE]]
              /\ counters' = b.c.cnt
    /\ UNCHANGED <<top, initializers, exc, outcome, model, last>>

\* the initializer names that occur as an input of a node
UsedConstants(nodes, initializer_names) ==
    {inp \in UNION {Range(nodes[i].inputs) : i \in 1..Len(nodes)} :
        inp \in initializer_names}

\* the names in the order in which the nodes first read them
RECURSIVE FirstUses(_, _)
FirstUses(names, S) ==
    IF names = <<>> THEN <<>>
    ELSE IF Head(names) \in S
         THEN <<Head(names)>> \o FirstUses(Tail(names), S \ {Head(names)})
         ELSE FirstUses(Tail(names), S)

RECURSIVE AllInputs(_)
AllInputs(nodes) ==
    IF nodes = <<>> THEN <<>> ELSE Head(nodes).inputs \o AllInputs(Tail(nodes))

\* the used constants in first-use order, unsorted
ParamInputsUnsorted(nodes, initializer_names) ==
    FirstUses(AllInputs(nodes), UsedConstants(nodes, initializer_names))

\* param_inputs = sorted(used_constants)
ParamInputs(nodes, initializer_names) ==
    Sorted(UsedConstants(nodes, initializer_names))

\* a handler that validates nothing
OutputsNeverMissing(sub_output_names, meta) == FALSE

\* the validation that every sub-graph output has metadata
MissingOutputMetadata(sub_output_names, meta) ==
    \E i \in 1..Len(sub_output_names) : sub_output_names[i] \notin DOMAIN meta

\* OnnxBuilder.add_function(name, sub_builder, param_input_names): the function
\* frozen from the sub-builder, registered once per name
FunctionOf(sub, param_inputs) ==
    [inputs |-> sub.inputs, params |-> param_inputs, outputs |-> sub.outputs,
     nodes |-> sub.nodes, meta |-> DOMAIN sub.meta]

\* add_function fails if an output of the sub-builder lacks a record
add_function_fails(sub) ==
    \E i \in 1..Len(sub.outputs) : sub.outputs[i] \notin DOMAIN sub.meta

add_function(functions, name, sub, param_inputs) ==
    IF name \in DOMAIN functions THEN functions
    ELSE Put(functions, name, FunctionOf(sub, param_inputs))

\* OnnxBuilder.merge_value_info_metadata_from(sub_builder)
merge_value_info_metadata_from(meta, sub_meta) ==
    [n \in DOMAIN meta \cup DOMAIN sub_meta |->
        IF n \in DOMAIN sub_meta
        THEN register_value_info_metadata(meta, n, sub_meta[n])[n]
        ELSE meta[n]]

\* origin or "subgraph"
OrSubgraph(origin) == IF origin = "none" THEN "subgraph" ELSE origin

\* a handler without the repair
RepairSkipped(sm, sub_name, has_aval) == sm

\* the sub-builder's metadata after the repair of a name without a record
Repaired(sm, sub_name, has_aval) ==
    IF sub_name \notin DOMAIN sm /\ has_aval
    THEN register_value_info_metadata(sm, sub_name, "repaired")
    ELSE sm

\* The loop over eqn.outvars that reconciles each output's metadata between the
\* sub-builder (sm) and the parent (pm, pvi is parent_builder.value_info).
RECURSIVE ReconcileOutputs(_, _, _, _)
ReconcileOutputs(r, outvars, i, sub_output_names) ==
    IF i > Len(outvars) \/ r.err # "none" THEN r
    ELSE LET var == outvars[i]
             p == get_var_name(Ctx(r.pv2n, r.cnt, <<>>), var)
             s == get_name(Ctx(r.sv2n, p.cnt, <<>>), V(var))
             parent_name == p.name
             missing == s.name \notin DOMAIN r.sm
             sm1 == Repaired(r.sm, s.name, var.aval)
             sub_name == IF missing /\ ~var.aval /\ i <= Len(sub_output_names)
                         THEN sub_output_names[i]
                         ELSE s.name
             r1 == [r EXCEPT !.pv2n = p.v2n, !.sv2n = s.v2n, !.cnt = s.cnt, !.sm = sm1]
             found == sub_name \in DOMAIN sm1 \/ parent_name \in DOMAIN r.pm
             origin == IF sub_name \in DOMAIN sm1 THEN sm1[sub_name]
                       ELSE IF parent_name \in DOMAIN r.pm THEN r.pm[parent_name]
                       ELSE "none"
         IN  IF parent_name \in r.pvi
             THEN ReconcileOutputs(r1, outvars, i + 1, sub_output_names)
             ELSE IF ~found /\ ~var.aval
             THEN [r1 EXCEPT !.err = "OutputMissingMetadataNoAval"]
             ELSE IF ~found
             THEN ReconcileOutputs(
                      [r1 EXCEPT
                          !.sm = IF sub_name \in DOMAIN sm1 THEN sm1
                                 ELSE register_value_info_metadata(sm1, sub_name, "recovered"),
                          !.pm = register_value_info_metadata(@, parent_name, "recovered"),
                          !.pvi = @ \cup {parent_name}],
                      outvars, i + 1, sub_output_names)
             ELSE ReconcileOutputs(
                      [r1 EXCEPT
                          !.pm = register_value_info_metadata(
                                     @, parent_name, OrSubgraph(origin)),
                          !.pvi = @ \cup {parent_name}],
                      outvars, i + 1, sub_output_names)

\* a propagation that adds nothing
PropagateNothing(parent_functions, sub_functions) ==
    [parent |-> parent_functions, sub |-> sub_functions]

\* _propagate_nested_functions(parent_builder, sub_builder): the two function
\* tables as the call leaves them
_propagate_nested_functions(parent_functions, sub_functions) ==
    [parent |-> parent_functions @@ sub_functions, sub |-> sub_functions]

\* the captured constants ahead of the data inputs
CallInputsParamsFirst(input_names, param_inputs) == param_inputs \o input_names

\* call_inputs = input_names + param_inputs
CallInputs(input_names, param_inputs) == input_names \o param_inputs

\* function_handler after the sub-trace has returned
FunctionCallEnd ==
    /\ Running
    /\ Depth > 1
    /\ Cur.done
    /\ LET sub == Cur
           parent == stack[Depth - 1]
           eqn == Program(parent.prog).eqns[parent.pc]
           unique_node_name == parent.call.unique_node_name
           unique_func_name == parent.call.unique_func_name
           param_inputs == ParamInputs(sub.nodes, Range(initializers))
           functions1 == add_function(parent.functions, unique_func_name, sub, param_inputs)
           r == ReconcileOutputs(
                    [pv2n |-> parent.var_to_name, sv2n |-> sub.var_to_name,
                     cnt |-> counters, sm |-> sub.meta,
                     pm |-> merge_value_info_metadata_from(parent.meta, sub.meta),
                     pvi |-> parent.value_info, err |-> "none"],
                    eqn.outvars, 1, sub.outputs)
           sub1 == [sub EXCEPT !.var_to_name = r.sv2n, !.meta = r.sm]
           parent1 == [parent EXCEPT !.functions = functions1, !.var_to_name = r.pv2n,
                                     !.meta = r.pm, !.value_info = r.pvi]
           both == _propagate_nested_functions(functions1, sub.functions)
           output_names == [k \in 1..Len(eqn.outvars) |-> r.pv2n[eqn.outvars[k]]]
           node == make_node(unique_node_name,
                             CallInputs(parent.call.input_names, param_inputs),
                             output_names, unique_node_name)
       IN  IF MissingOutputMetadata(sub.outputs, sub.meta)
           THEN /\ exc' = "SubgraphOutputMissingMetadata"
                /\ UNCHANGED <<stack, counters, last>>
           ELSE IF add_function_fails(sub)
           THEN /\ exc' = "AddFunctionFailed"
                /\ UNCHANGED <<stack, counters, last>>
           ELSE IF r.err # "none"
           THEN /\ exc' = r.err
                /\ stack' = [stack EXCEPT ![Depth - 1] = parent1, ![Depth] = sub1]
                /\ counters' = r.cnt
                /\ UNCHANGED last
           ELSE /\ exc' = "none"
                /\ stack' = Append(SubSeq(stack, 1, Depth - 2),
                                   [parent1 EXCEPT !.functions = both.parent,
                                                   !.nodes = Append(@, node),
                                                   !.call = NoCall,
                                                   !.pc = @ + 1])
                /\ counters' = r.cnt
                /\ last' = [unique |-> unique_node_name, sub_functions |-> both.sub,
                            propagated |-> sub.functions, sub_meta |-> r.sm,
                            sub_var_to_name |-> r.sv2n]
    /\ UNCHANGED <<top, initializers, outcome, model>>

\* ------------------------------------------------------------------ to_onnx

\* OnnxBuilder.filter_unused_initializers(): the initializers some node of the
\* graph or of a function reads
filter_unused_initializers(f, inits) ==
    LET ReadBy(nodes) == UNION {Range(nodes[i].inputs) : i \in 1..Len(nodes)}
        used == ReadBy(f.nodes)
                    \cup UNION {ReadBy(f.functions[n].nodes) : n \in DOMAIN f.functions}
    IN  SelectSeq(inits, LAMBDA x : x \in used)

\* OnnxBuilder.create_onnx_model(model_name)
create_onnx_model(f, inits) ==
    [nodes |-> f.nodes, initializers |-> inits, functions |-> f.functions]

\* a model built without the filter
BuildModelUnfiltered(f, inits) == create_onnx_model(f, inits)

\* builder.filter_unused_initializers(); model = builder.create_onnx_model(...)
BuildModel(f, inits) == create_onnx_model(f, filter_unused_initializers(f, inits))

\* to_onnx after converter.trace_jaxpr has returned
Finalize ==
    /\ Running
    /\ Depth = 1
    /\ Cur.done
    /\ IF \E i \in 1..Len(Cur.outputs) : Cur.outputs[i] \notin DOMAIN Cur.meta
       THEN /\ exc' = "OutputWithoutValueInfo"
            /\ UNCHANGED <<outcome, model, initializers>>
       ELSE /\ model' = BuildModel(Cur, initializers)
            /\ initializers' = model'.initializers
            /\ outcome' = "returned"
            /\ UNCHANGED exc
    /\ UNCHANGED <<top, stack, counters, last>>

\* an exception leaves the innermost live call: a nested trace and the
\* function_handler that started it, or at the outermost level to_onnx itself
Unwind ==
    /\ outcome = "running"
    /\ exc # "none"
    /\ IF Depth > 1
       THEN /\ stack' = [SubSeq(stack, 1, Depth - 1) EXCEPT ![Depth - 1].call = NoCall]
            /\ UNCHANGED outcome
       ELSE /\ outcome' = "raised"
            /\ UNCHANGED stack
    /\ UNCHANGED <<top, initializers, counters, exc, model, last>>

Next ==
    \/ TraceBegin
    \/ LowerPow
    \/ LowerUnknown
    \/ FunctionCallBegin
    \/ TraceEnd
    \/ FunctionCallEnd
    \/ Finalize
    \/ Unwind

Spec == Init /\ [][Next]_vars

\* ------------------------------------------------------------------ properties

\* the equations of frame f's program that have been lowered
Lowered(f) == 1..(IF f.pc = 0 THEN 0 ELSE f.pc - 1)
EqnsOf(f) == Program(f.prog).eqns
LoweredCalls(f) == {k \in Lowered(f) : EqnsOf(f)[k].op = "call"}

\* the names bound to the Var operands, in operand order
RECURSIVE VarNames(_, _)
VarNames(v2n, operands) ==
    IF operands = <<>> THEN <<>>
    ELSE IF Head(operands).t = "Var"
         THEN <<v2n[Head(operands).v]>> \o VarNames(v2n, Tail(operands))
         ELSE VarNames(v2n, Tail(operands))

\* every node input of a node list
ReadIn(nodes) == UNION {Range(nodes[i].inputs) : i \in 1..Len(nodes)}

\* an equation's abstract input signature: the kind of each operand
Signature(eqn) == [i \in 1..Len(eqn.invars) |-> eqn.invars[i].t]

\* the sub-trace of a nested call has returned and function_handler resumes
HandlerResumes == Running /\ Depth > 1 /\ Cur.done

\* a declared output of the sub-graph has no metadata record
SubOutputLacksRecord ==
    \E i \in 1..Len(Cur.outputs) : Cur.outputs[i] \notin DOMAIN Cur.meta

ResumedOutvars == EqnsOf(stack[Depth - 1])[stack[Depth - 1].pc].outvars

C3_ParamInputsSortedUsedConstants ==
    \A d \in 1..Depth :
        \A n \in DOMAIN stack[d].functions :
            LET fn == stack[d].functions[n]
            IN  /\ Range(fn.params) = ReadIn(fn.nodes) \cap Range(initializers)
                /\ Cardinality(Range(fn.params)) = Len(fn.params)
                /\ \A i, j \in 1..Len(fn.params) :
                      i < j => LexLess(fn.params[i], fn.params[j])
                /\ (ReadIn(fn.nodes) \cap Range(initializers) # {}) => fn.params # <<>>

\* a function is registered whose sub-graph first reads a constant made while it
\* was lowered and then a smaller-named one
C3_Witness ==
    \E d \in 1..Depth :
        \E n \in DOMAIN stack[d].functions :
            LET fn == stack[d].functions[n]
            IN  /\ Len(fn.params) >= 2
                /\ fn.params # FirstUses(AllInputs(fn.nodes), Range(fn.params))

\* C4: every lowered call equation has exactly one node in its builder's graph
\* (one node per lowered equation); the node's inputs are the names of the
\* equation's Var operands in operand order followed by the sorted captured
\* constants of the function it calls, its outputs the names bound to the
\* equation's output Variables in order.
C4_CallNodeInputsOutputs ==
    \A d \in 1..Depth :
        LET f == stack[d]
        IN  /\ Len(f.nodes) = Cardinality(Lowered(f))
            /\ \A k \in LoweredCalls(f) :
                  LET node == f.nodes[k]
                      eqn == EqnsOf(f)[k]
                  IN  /\ node.op_type \in DOMAIN f.functions
                      /\ node.inputs =
                            VarNames(f.var_to_name, eqn.invars)
                            \o Sorted(ReadIn(f.functions[node.op_type].nodes)
                                          \cap Range(initializers))
                      /\ node.outputs =
                            [i \in 1..Len(eqn.outvars) |-> f.var_to_name[eqn.outvars[i]]]

\* a call with two data inputs, two outputs and several captured constants has
\* been lowered
C4_Witness ==
    \E k \in LoweredCalls(stack[1]) :
        /\ Len(VarNames(stack[1].var_to_name, top.eqns[k].invars)) = 2
        /\ Len(top.eqns[k].outvars) = 2
        /\ Len(stack[1].nodes[k].inputs) > 3

\* C5: every registered function has a metadata record for each of its declared
\* outputs; when function_handler resumes with a declared sub-graph output that
\* has no record it raises before add_function: nothing is registered, no node
\* is emitted.
C5_RegisteredOutputsHaveRecords ==
    /\ [](\A d \in 1..Depth :
             \A n \in DOMAIN stack[d].functions :
                 Range(stack[d].functions[n].outputs) \subseteq stack[d].functions[n].meta)
    /\ [][(HandlerResumes /\ SubOutputLacksRecord)
          => (exc' = "SubgraphOutputMissingMetadata" /\ stack' = stack)]_vars

\* function_handler has raised for a sub-graph output without metadata
C5_Witness ==
    /\ exc = "SubgraphOutputMissingMetadata"
    /\ Depth > 1
    /\ SubOutputLacksRecord
    /\ stack[Depth - 1].functions = EmptyFn

\* C6: every initializer of the model to_onnx built is read by a node of the
\* graph or of one of its functions.
C6_NoDeadInitializers ==
    outcome = "returned" =>
        \A i \in 1..Len(model.initializers) :
            model.initializers[i] \in
                ReadIn(model.nodes)
                    \cup UNION {ReadIn(model.functions[n].nodes) : n \in DOMAIN model.functions}

\* a model was returned with fewer initializers than constants were created,
\* one of them created inside a nested sub-graph
C6_Witness ==
    /\ outcome = "returned"
    /\ model.initializers # <<>>
    /\ StrConst \in DOMAIN counters
    /\ counters[StrConst] > Len(model.initializers)
    /\ model.functions # EmptyFn

\* an equation that cannot be lowered: no handler, no recorded callable, or an
\* operand function_handler cannot use
CannotLower(eqn) ==
    \/ eqn.op = "unknown"
    \/ /\ eqn.op = "call"
       /\ \/ eqn.fn = "none"
          \/ \E i \in 1..Len(eqn.invars) :
                \/ eqn.invars[i].t = "Other"
                \/ eqn.invars[i].t = "Var" /\ ~eqn.invars[i].v.aval

\* C7: a failure of a nested lowering is raised and propagates outwards frame by
\* frame until to_onnx raises; to_onnx returns a model only when no exception is
\* in flight and every equation of the program was lowered.
C7_FailuresPropagate ==
    /\ [](outcome = "returned" =>
             /\ exc = "none"
             /\ Len(model.nodes) = Len(top.eqns)
             /\ \A k \in 1..Len(top.eqns) : ~CannotLower(top.eqns[k]))
    /\ [](outcome # "returned" => model = NoModel)
    /\ [][(AtEqn /\ CannotLower(CurEqn)) => exc' # "none"]_vars
    /\ [][(HandlerResumes /\ SubOutputLacksRecord) => exc' # "none"]_vars
    /\ [][(exc # "none") =>
             /\ exc' = exc
             /\ outcome' # "returned"
             /\ (Depth' = Depth - 1 \/ outcome' = "raised")]_vars

\* to_onnx has raised for a failure that arose in a nested lowering
C7_Witness ==
    /\ outcome = "raised"
    /\ exc = "SubgraphOutputMissingMetadata"

\* C8: every lowered pow equation has exactly one node in its builder's graph
\* (one node per lowered equation), of type Pow, whose inputs are the operands'
\* names in operand order and whose one output is the name bound to the
\* equation's first output Variable.
C8_PowNode ==
    \A d \in 1..Depth :
        LET f == stack[d]
        IN  /\ Len(f.nodes) = Cardinality(Lowered(f))
            /\ \A k \in Lowered(f) :
                  EqnsOf(f)[k].op = "pow" =>
                      LET node == f.nodes[k]
                          eqn == EqnsOf(f)[k]
                      IN  /\ node.op_type = StrPowOp
                          /\ Len(node.inputs) = 2
                          /\ \A i \in 1..2 :
                                IF eqn.invars[i].t = "Var"
                                THEN node.inputs[i] = f.var_to_name[eqn.invars[i].v]
                                ELSE node.inputs[i] \in Range(initializers)
                          /\ node.outputs = <<f.var_to_name[eqn.outvars[1]]>>

\* a pow equation over two different tensor inputs has been lowered
C8_Witness ==
    \E k \in Lowered(stack[1]) :
        /\ top.eqns[k].op = "pow"
        /\ top.eqns[k].invars[1].t = "Var"
        /\ top.eqns[k].invars[2].t = "Var"
        /\ Len(stack[1].nodes) = k

C10_CallArity ==
    \A d \in 1..Depth :
        \A k \in LoweredCalls(stack[d]) :
            LET node == stack[d].nodes[k]
                fn == stack[d].functions[node.op_type]
            IN  /\ Len(node.inputs) - Len(fn.params) = Len(EqnsOf(stack[d])[k].invars)
                /\ Len(node.inputs) = Len(fn.inputs) + Len(fn.params)

====
